---- MODULE Spec2Model ----
(***************************************************************************)
(* Model of detect_cost_anomalies.py: the module-level configuration load, *)
(* run_query, detect_anomalies, format_message, post_to_slack,             *)
(* create_github_issue and main.                                           *)
(*                                                                         *)
(* Python floats are modelled as exact rationals <<n, d>> (d > 0, lowest   *)
(* terms).  The cost, threshold and day values drawn below are chosen so   *)
(* that, wherever percent_change meets the threshold exactly, every        *)
(* intermediate of the double computation is exactly representable, and    *)
(* everywhere else the distance to the threshold dwarfs rounding.          *)
(* Python None is the empty tuple <<>>; a present value v is <<v>>.        *)
(***************************************************************************)
EXTENDS Integers, Sequences, FiniteSets, TLC

VARIABLES env, pc, cfg, rows, anomalies, message, posted, created,
          calls, http, exitCode, fatal

vars == <<env, pc, cfg, rows, anomalies, message, posted, created,
          calls, http, exitCode, fatal>>

(* ---------------------------- bounds ----------------------------------- *)
\* longest query result explored
MaxRows == 3

(* ------------------------ Python values -------------------------------- *)
None == <<>>
Some(v) == <<v>>

\* an environment variable that is not set (os.getenv returns None)
Unset == "<unset>"

\* Python truthiness of an optional string: None and "" are falsy
Truthy(s) == s # Unset /\ s # ""

Abs(n) == IF n < 0 THEN -n ELSE n

RECURSIVE GCD(_, _)
GCD(a, b) == IF b = 0 THEN a ELSE GCD(b, a % b)

\* the rational n/d (d # 0) in lowest terms with a positive denominator
Rat(n, d) ==
    LET s == IF d < 0 THEN -1 ELSE 1
        g == GCD(Abs(n), Abs(d))
    IN  <<(s * n) \div g, (s * d) \div g>>

\* float(v) of an integral value
Float(v) == <<v, 1>>

RatSub(a, b) == Rat(a[1] * b[2] - b[1] * a[2], a[2] * b[2])
RatMul(a, b) == Rat(a[1] * b[1], a[2] * b[2])
RatDiv(a, b) == Rat(a[1] * b[2], a[2] * b[1])
RatGT(a, b) == a[1] * b[2] > b[1] * a[2]
RatGE(a, b) == a[1] * b[2] >= b[1] * a[2]
RatLE(a, b) == a[1] * b[2] <= b[1] * a[2]

\* float(x or 0.0): None and 0 are falsy and give 0.0
FloatOrZero(x) == IF x = None \/ x[1] = 0 THEN Float(0) ELSE Float(x[1])

(* ------------------------ detect_anomalies ----------------------------- *)
\* baseline_total / baseline_days if baseline_days > 0 else 0.0
BaselineAvg(baseline_total, baseline_days) ==
    IF baseline_days > 0
    THEN RatDiv(baseline_total, Float(baseline_days))
    ELSE Float(0)

\* (recent_cost - baseline_avg) / baseline_avg * 100.0
PctChange(recent_cost, baseline_avg) ==
    RatMul(RatDiv(RatSub(recent_cost, baseline_avg), baseline_avg), Float(100))

FloorFires_gt(recent_cost, min_abs) == RatGT(recent_cost, min_abs)
\* if recent_cost >= min_abs
FloorFires(recent_cost, min_abs) == RatGE(recent_cost, min_abs)

ThresholdFires_ge(pct_change, threshold_pct) == RatGE(pct_change, threshold_pct)
\* if pct_change > threshold_pct
ThresholdFires(pct_change, threshold_pct) == RatGT(pct_change, threshold_pct)

NoBaselineAnomaly_pct(service, recent_cost, baseline_avg, min_abs) ==
    [service |-> service, recent_cost |-> recent_cost,
     baseline_avg |-> baseline_avg, percent_change |-> Float(0),
     reason |-> <<"no baseline; recent >= $", min_abs>>]
\* the record appended in the baseline_avg <= 0 branch
NoBaselineAnomaly(service, recent_cost, baseline_avg, min_abs) ==
    [service |-> service, recent_cost |-> recent_cost,
     baseline_avg |-> baseline_avg, percent_change |-> None,
     reason |-> <<"no baseline; recent >= $", min_abs>>]

\* the record appended in the baseline_avg > 0 branch
ThresholdAnomaly(service, recent_cost, baseline_avg, pct_change, threshold_pct) ==
    [service |-> service, recent_cost |-> recent_cost,
     baseline_avg |-> baseline_avg, percent_change |-> pct_change,
     reason |-> <<">", threshold_pct, "%">>]

\* one iteration of the for loop: what it appends (nothing, or one record)
RowAnomalies(row, baseline_days, threshold_pct, min_abs) ==
    LET service == row.service
        recent_cost == FloatOrZero(row.recent_cost)
        baseline_total == FloatOrZero(row.baseline_total)
        baseline_avg == BaselineAvg(baseline_total, baseline_days)
    IN  IF RatLE(baseline_avg, Float(0))
        THEN IF FloorFires(recent_cost, min_abs)
             THEN <<NoBaselineAnomaly(service, recent_cost, baseline_avg, min_abs)>>
             ELSE <<>>
        ELSE LET pct_change == PctChange(recent_cost, baseline_avg)
             IN  IF ThresholdFires(pct_change, threshold_pct)
                 THEN <<ThresholdAnomaly(service, recent_cost, baseline_avg,
                                         pct_change, threshold_pct)>>
                 ELSE <<>>

RECURSIVE DetectLoop(_, _, _, _, _)
\* the for loop over rows, appending to the list built so far
DetectLoop(acc, rest, baseline_days, threshold_pct, min_abs) ==
    IF rest = <<>>
    THEN acc
    ELSE DetectLoop(acc \o RowAnomalies(Head(rest), baseline_days, threshold_pct, min_abs),
                    Tail(rest), baseline_days, threshold_pct, min_abs)

DetectAnomalies_prepend(rs, baseline_days, threshold_pct, min_abs) ==
    LET RECURSIVE Rev(_, _)
        Rev(acc, rest) ==
            IF rest = <<>> THEN acc
            ELSE Rev(RowAnomalies(Head(rest), baseline_days, threshold_pct, min_abs) \o acc,
                     Tail(rest))
    IN  Rev(<<>>, rs)
DetectAnomalies(rs, baseline_days, threshold_pct, min_abs) ==
    DetectLoop(<<>>, rs, baseline_days, threshold_pct, min_abs)

(* ---------------------- module-level configuration --------------------- *)
\* os.getenv(name, default)
GetEnv(e, name, default) == IF e[name] = Unset THEN default ELSE e[name]

\* float(s) on the strings used here: Some(value), or None for ValueError
ParseFloat(s) ==
    CASE s = "30"  -> Some(Float(30))
      [] s = "50"  -> Some(Float(50))
      [] s = "5.0" -> Some(Float(5))
      [] s = "0"   -> Some(Float(0))
      [] s = "-1"  -> Some(Float(-1))
      [] OTHER     -> None

\* int(s) on the strings used here: Some(value), or None for ValueError
ParseInt(s) ==
    CASE s = "7" -> Some(7)
      [] s = "2" -> Some(2)
      [] s = "1" -> Some(1)
      [] s = "0" -> Some(0)
      [] OTHER   -> None

\* str.lower() on the strings used here
Lower(s) ==
    CASE s = "True" -> "true"
      [] s = "TRUE" -> "true"
      [] s = "False" -> "false"
      [] OTHER -> s

BillingTableMissing_never(table) == FALSE
\* if not BILLING_TABLE
BillingTableMissing(table) == ~Truthy(table)

\* the module globals of lines 28-34, from the environment
Globals(e) ==
    [THRESHOLD_PERCENT |-> ParseFloat(GetEnv(e, "THRESHOLD_PERCENT", "30")),
     BASELINE_DAYS |-> ParseInt(GetEnv(e, "BASELINE_DAYS", "7")),
     MIN_ABSOLUTE_INCREASE |-> ParseFloat(GetEnv(e, "MIN_ABSOLUTE_INCREASE", "5.0")),
     SLACK_WEBHOOK |-> e["SLACK_WEBHOOK_URL"],
     CREATE_ISSUE |-> (Lower(GetEnv(e, "CREATE_GITHUB_ISSUE", "false")) = "true"),
     GITHUB_TOKEN |-> e["GITHUB_TOKEN"],
     GITHUB_REPOSITORY |-> e["GITHUB_REPOSITORY"]]

\* the globals before the module body has run
NoGlobals ==
    [THRESHOLD_PERCENT |-> None, BASELINE_DAYS |-> None,
     MIN_ABSOLUTE_INCREASE |-> None, SLACK_WEBHOOK |-> Unset,
     CREATE_ISSUE |-> FALSE, GITHUB_TOKEN |-> Unset, GITHUB_REPOSITORY |-> Unset]

\* a float() or int() of lines 28-30 raised ValueError
ConfigValueError(g) ==
    \/ g.THRESHOLD_PERCENT = None
    \/ g.BASELINE_DAYS = None
    \/ g.MIN_ABSOLUTE_INCREASE = None

(* ----------------------------- run_query ------------------------------- *)
\* service.description values, one per row (GROUP BY service); the code never
\* inspects a name, so one naming per result length is explored
ServiceNames == <<"Compute Engine", "BigQuery", "Cloud Storage", "Cloud SQL">>

\* ORDER BY r.recent_cost DESC (BigQuery puts NULLs last when descending)
DescNullsLast(x, y) == y = None \/ (x # None /\ x[1] >= y[1])

\* the row lists the query can return: one row per service, baseline_total
\* never NULL (COALESCE), ordered by recent_cost descending
QueryResults(recents, baselines) ==
    LET Costs == [recent_cost : recents, baseline_total : baselines]
        Ordered == {cs \in UNION {[1..n -> Costs] : n \in 0..MaxRows} :
                       \A i \in 1..(Len(cs) - 1) :
                           DescNullsLast(cs[i].recent_cost, cs[i + 1].recent_cost)}
    IN  {[i \in 1..Len(cs) |->
             [service |-> ServiceNames[i],
              recent_cost |-> cs[i].recent_cost,
              baseline_total |-> cs[i].baseline_total]] : cs \in Ordered}

(* ---------------------------- format_message --------------------------- *)
\* the header count and one block per anomaly; "N/A" for an absent percent_change
\* (the rendering of the numbers as digits is not modelled)
FormatMessage(anoms) ==
    [count |-> Len(anoms),
     blocks |-> [i \in 1..Len(anoms) |->
                    [service |-> anoms[i].service,
                     recent |-> anoms[i].recent_cost,
                     baseline |-> anoms[i].baseline_avg,
                     change |-> IF anoms[i].percent_change # None
                                THEN Some(anoms[i].percent_change)
                                ELSE Some("N/A"),
                     note |-> anoms[i].reason]]]

(* ------------------------ outbound HTTP requests ----------------------- *)
\* what requests.post can do: return a final response with a status code
\* (and, for the issue API, a JSON body that is an object or not), or raise
\* a transport error (connection failure, timeout)
Response(status, json) == [error |-> FALSE, status |-> status, json |-> json]
TransportError == [error |-> TRUE, status |-> 0, json |-> "none"]

SlackOutcomes == {Response(200, "none"), Response(304, "none"),
                  Response(404, "none"), Response(503, "none"), TransportError}

GithubOutcomes == {Response(201, "object"), Response(200, "array"),
                   Response(304, "object"), Response(404, "object"), TransportError}

\* r.raise_for_status(): HTTPError for a 4xx or 5xx status
RaisesForStatus(status) == 400 <= status /\ status < 600

ExceptException_none(outcome) == FALSE
\* except Exception as e: the transport errors, HTTPError and the errors of
\* r.json().get are all subclasses of Exception, so the clause catches them
ExceptException(outcome) == TRUE

\* the try block of post_to_slack raises: transport error or HTTPError
SlackTryRaises(outcome) == outcome.error \/ RaisesForStatus(outcome.status)

\* post_to_slack(text): the value returned, the requests made, whether an
\* exception left the function
PostToSlack(webhook, text, outcome) ==
    IF ~Truthy(webhook)
    THEN [ret |-> FALSE, sent |-> <<>>, raised |-> FALSE]
    ELSE LET req == [to |-> "slack", payload |-> text, outcome |-> outcome]
         IN  IF SlackTryRaises(outcome)
             THEN IF ExceptException(outcome)
                  THEN [ret |-> FALSE, sent |-> <<req>>, raised |-> FALSE]
                  ELSE [ret |-> FALSE, sent |-> <<req>>, raised |-> TRUE]
             ELSE [ret |-> TRUE, sent |-> <<req>>, raised |-> FALSE]

IssueNotConfigured_and(token, repository) == ~Truthy(token) /\ ~Truthy(repository)
\* if not GITHUB_TOKEN or not GITHUB_REPOSITORY
IssueNotConfigured(token, repository) == ~Truthy(token) \/ ~Truthy(repository)

\* the try block of create_github_issue raises: transport error, HTTPError,
\* or r.json().get on a body that is not a JSON object
IssueTryRaises(outcome) ==
    outcome.error \/ RaisesForStatus(outcome.status) \/ outcome.json # "object"

\* create_github_issue(title, body)
CreateGithubIssue(token, repository, title, body, outcome) ==
    IF IssueNotConfigured(token, repository)
    THEN [ret |-> FALSE, sent |-> <<>>, raised |-> FALSE]
    ELSE LET req == [to |-> "github", payload |-> [title |-> title, body |-> body],
                     outcome |-> outcome]
         IN  IF IssueTryRaises(outcome)
             THEN IF ExceptException(outcome)
                  THEN [ret |-> FALSE, sent |-> <<req>>, raised |-> FALSE]
                  ELSE [ret |-> FALSE, sent |-> <<req>>, raised |-> TRUE]
             ELSE [ret |-> TRUE, sent |-> <<req>>, raised |-> FALSE]

(* ------------------------------ the run -------------------------------- *)
\* the environments explored: each variable unset, or set to one of a few strings
Environments ==
    [BILLING_TABLE : {Unset, "", "proj.billing.export"},
     THRESHOLD_PERCENT : {Unset, "50", "abc"},
     BASELINE_DAYS : {Unset, "2", "2.5"},
     MIN_ABSOLUTE_INCREASE : {Unset, "0", "-1"},
     SLACK_WEBHOOK_URL : {Unset, "", "https://hooks.slack.example/T0"},
     CREATE_GITHUB_ISSUE : {Unset, "True", "yes"},
     GITHUB_TOKEN : {Unset, "ghp_token"},
     GITHUB_REPOSITORY : {Unset, "owner/repo"}]

\* raw recent_cost and baseline_total values of the rows a run queries
RunRecents == {None, Some(3), Some(21)}
RunBaselines == {Some(0), Some(14)}

\* the process has just started: nothing of the module body has run
Init ==
    /\ env \in Environments
    /\ pc = "START"
    /\ cfg = NoGlobals
    /\ rows = <<>>
    /\ anomalies = <<>>
    /\ message = None
    /\ posted = None
    /\ created = None
    /\ calls = <<>>
    /\ http = <<>>
    /\ exitCode = None
    /\ fatal = "none"

\* an exception or SystemExit leaves the process: exit status 1
Abort(kind) ==
    /\ pc' = "ABORT"
    /\ exitCode' = Some(1)
    /\ fatal' = kind

\* main returned: exit status 0
Return ==
    /\ pc' = "END"
    /\ exitCode' = Some(0)
    /\ fatal' = fatal

\* the module body, lines 24-36: the BILLING_TABLE check, the typed globals,
\* the BigQuery client (whose construction can fail, e.g. no credentials)
LoadConfig ==
    /\ pc = "START"
    /\ \E clientOk \in BOOLEAN :
          IF BillingTableMissing(env["BILLING_TABLE"])
          THEN Abort("config") /\ cfg' = cfg
          ELSE IF ConfigValueError(Globals(env))
          THEN Abort("config") /\ cfg' = cfg
          ELSE IF ~clientOk
          THEN Abort("config") /\ cfg' = Globals(env)
          ELSE /\ cfg' = [Globals(env) EXCEPT
                            !.THRESHOLD_PERCENT = @[1],
                            !.BASELINE_DAYS = @[1],
                            !.MIN_ABSOLUTE_INCREASE = @[1]]
               /\ pc' = "QUERY"
               /\ UNCHANGED <<exitCode, fatal>>
    /\ UNCHANGED <<env, rows, anomalies, message, posted, created, calls, http>>

\* main, line 137: rows = run_query(...); a failing query raises out of main
RunQuery ==
    /\ pc = "QUERY"
    /\ calls' = Append(calls, "run_query")
    /\ \E ok \in BOOLEAN :
          IF ok
          THEN /\ rows' \in QueryResults(RunRecents, RunBaselines)
               /\ pc' = "DETECT"
               /\ UNCHANGED <<exitCode, fatal>>
          ELSE Abort("query") /\ rows' = rows
    /\ UNCHANGED <<env, cfg, anomalies, message, posted, created, http>>

AfterDetect_report(anoms) == "REPORT"
\* main, lines 140-142: if not anomalies: return
AfterDetect(anoms) == IF anoms = <<>> THEN "END" ELSE "REPORT"

\* main, lines 138-142
Detect ==
    /\ pc = "DETECT"
    /\ calls' = Append(calls, "detect_anomalies")
    /\ anomalies' = DetectAnomalies(rows, cfg.BASELINE_DAYS, cfg.THRESHOLD_PERCENT,
                                    cfg.MIN_ABSOLUTE_INCREASE)
    /\ IF AfterDetect(anomalies') = "END"
       THEN Return
       ELSE pc' = AfterDetect(anomalies') /\ UNCHANGED <<exitCode, fatal>>
    /\ UNCHANGED <<env, cfg, rows, message, posted, created, http>>

\* main, lines 144-145
Report ==
    /\ pc = "REPORT"
    /\ calls' = Append(calls, "format_message")
    /\ message' = Some(FormatMessage(anomalies))
    /\ pc' = "NOTIFY"
    /\ UNCHANGED <<env, cfg, rows, anomalies, posted, created, http, exitCode, fatal>>

AfterNotify_again(create_issue) == IF create_issue THEN "FILE_ISSUE" ELSE "NOTIFY"
\* main, line 148: if CREATE_ISSUE
AfterNotify(create_issue) == IF create_issue THEN "FILE_ISSUE" ELSE "END"

\* main, lines 147-148
Notify ==
    /\ pc = "NOTIFY"
    /\ calls' = Append(calls, "post_to_slack")
    /\ \E outcome \in SlackOutcomes :
          LET r == PostToSlack(cfg.SLACK_WEBHOOK, message[1], outcome)
          IN  /\ http' = http \o r.sent
              /\ IF r.raised
                 THEN Abort("notify") /\ posted' = posted
                 ELSE /\ posted' = Some(r.ret)
                      /\ IF AfterNotify(cfg.CREATE_ISSUE) = "END"
                         THEN Return
                         ELSE /\ pc' = AfterNotify(cfg.CREATE_ISSUE)
                              /\ UNCHANGED <<exitCode, fatal>>
    /\ UNCHANGED <<env, cfg, rows, anomalies, message, created>>

\* main, lines 149-153
FileIssue ==
    /\ pc = "FILE_ISSUE"
    /\ calls' = Append(calls, "create_github_issue")
    /\ \E outcome \in GithubOutcomes :
          LET title == <<"[Cost Anomaly]", Len(anomalies), "anomaly(s)">>
              body == <<message[1], "Detected by automated job.">>
              r == CreateGithubIssue(cfg.GITHUB_TOKEN, cfg.GITHUB_REPOSITORY,
                                     title, body, outcome)
          IN  /\ http' = http \o r.sent
              /\ IF r.raised
                 THEN Abort("file_issue") /\ created' = created
                 ELSE created' = Some(r.ret) /\ Return
    /\ UNCHANGED <<env, cfg, rows, anomalies, message, posted>>

Next == LoadConfig \/ RunQuery \/ Detect \/ Report \/ Notify \/ FileIssue

Spec == Init /\ [][Next]_vars

(* ------------- detect_anomalies on a wide range of inputs -------------- *)
DetectRecents == {None, Some(0), Some(3), Some(5), Some(150)}
DetectBaselines == {Some(-2), Some(0), Some(10), Some(100)}
DetectThresholds == {Float(30), Float(50)}
DetectDays == {0, 1, 2}
DetectFloors == {Float(-1), Float(0), Float(5)}

\* main is about to call detect_anomalies on the rows of a query
InitDetect ==
    /\ env \in {e \in Environments :
                    /\ e["BILLING_TABLE"] = "proj.billing.export"
                    /\ \A n \in DOMAIN e : n # "BILLING_TABLE" => e[n] = Unset}
    /\ pc = "DETECT"
    /\ \E t \in DetectThresholds, d \in DetectDays, f \in DetectFloors :
          cfg = [NoGlobals EXCEPT !.THRESHOLD_PERCENT = t, !.BASELINE_DAYS = d,
                                  !.MIN_ABSOLUTE_INCREASE = f]
    /\ rows \in QueryResults(DetectRecents, DetectBaselines)
    /\ anomalies = <<>>
    /\ message = None
    /\ posted = None
    /\ created = None
    /\ calls = <<"run_query">>
    /\ http = <<>>
    /\ exitCode = None
    /\ fatal = "none"

NextDetect == Detect

SpecDetect == InitDetect /\ [][NextDetect]_vars

(* ======================= properties of detect_anomalies ================= *)
\* f has been called by main
Called(f) == \E i \in 1..Len(calls) : calls[i] = f

\* the raw costs of a row as integers (NULL counts as 0)
RawCost(x) == IF x = None THEN 0 ELSE x[1]

\* baseline_avg = baseline_total / baseline_days is > 0 (0.0 is used when
\* baseline_days is not positive)
AvgPositive(row) == cfg.BASELINE_DAYS > 0 /\ RawCost(row.baseline_total) > 0

\* baseline_avg is exactly 0
AvgZero(row) == cfg.BASELINE_DAYS <= 0 \/ RawCost(row.baseline_total) = 0

\* (recent_cost - baseline_avg) / baseline_avg * 100, times baseline_total:
\* for a positive baseline_total, percent_change = PctTimesTotal / baseline_total
PctTimesTotal(row) ==
    (RawCost(row.recent_cost) * cfg.BASELINE_DAYS - RawCost(row.baseline_total)) * 100

\* percent_change > threshold_percent, for a row with baseline_avg > 0
PctExceeds(row) ==
    PctTimesTotal(row) * cfg.THRESHOLD_PERCENT[2]
        > cfg.THRESHOLD_PERCENT[1] * RawCost(row.baseline_total)

\* percent_change = threshold_percent, for a row with baseline_avg > 0
PctAtThreshold(row) ==
    PctTimesTotal(row) * cfg.THRESHOLD_PERCENT[2]
        = cfg.THRESHOLD_PERCENT[1] * RawCost(row.baseline_total)

\* recent_cost >= min_absolute_increase
AtLeastFloor(row) ==
    RawCost(row.recent_cost) * cfg.MIN_ABSOLUTE_INCREASE[2] >= cfg.MIN_ABSOLUTE_INCREASE[1]

\* the detection rule of the decision table fires on the row
RuleFires(row) == IF AvgPositive(row) THEN PctExceeds(row) ELSE AtLeastFloor(row)

\* the anomalies the row yielded (rows of one result have distinct services)
AnomaliesOf(row) == {k \in 1..Len(anomalies) : anomalies[k].service = row.service}

Yields(row) == AnomaliesOf(row) # {}

\* C1: after detect_anomalies, every row with baseline_avg > 0 yields an anomaly
\* iff percent_change = (recent_cost - baseline_avg) / baseline_avg * 100 is
\* strictly greater than threshold_percent (none at exact equality), and the
\* anomaly carries that percent_change (1400 for recent 150, baseline_avg 10);
\* recent 100 with baseline_avg 100 and threshold 30 yields nothing.
C1_ThresholdRule ==
    /\ RowAnomalies([service |-> "Compute Engine", recent_cost |-> Some(100),
                     baseline_total |-> Some(100)], 1, Float(30), Float(5)) = <<>>
    /\ Called("detect_anomalies") =>
        \A i \in 1..Len(rows) :
            AvgPositive(rows[i]) =>
                /\ Yields(rows[i]) <=> PctExceeds(rows[i])
                /\ PctAtThreshold(rows[i]) => ~Yields(rows[i])
                /\ \A k \in AnomaliesOf(rows[i]) :
                      /\ anomalies[k].percent_change # None
                      /\ anomalies[k].percent_change[1] * RawCost(rows[i].baseline_total)
                            = PctTimesTotal(rows[i]) * anomalies[k].percent_change[2]

\* a run of detection over recent 150 / baseline_avg 10 / threshold 50 (fires,
\* percent_change 1400) next to a row exactly at the threshold (does not fire)
C1_Witness ==
    /\ Called("detect_anomalies")
    /\ cfg.THRESHOLD_PERCENT = Float(50)
    /\ cfg.BASELINE_DAYS = 1
    /\ \E i, j \in 1..Len(rows) :
          /\ rows[i].recent_cost = Some(150) /\ rows[i].baseline_total = Some(10)
          /\ \E k \in AnomaliesOf(rows[i]) : anomalies[k].percent_change = Float(1400)
          /\ AvgPositive(rows[j]) /\ PctAtThreshold(rows[j]) /\ ~Yields(rows[j])

C3_AnomalyInvariant ==
    Called("detect_anomalies") =>
        \A k \in 1..Len(anomalies) :
            /\ \E i \in 1..Len(rows) :
                  /\ rows[i].service = anomalies[k].service
                  /\ RuleFires(rows[i])
                  /\ RatGT(anomalies[k].baseline_avg, Float(0)) <=> AvgPositive(rows[i])
            /\ anomalies[k].percent_change = None
                  <=> RatLE(anomalies[k].baseline_avg, Float(0))
            /\ Len(anomalies[k].percent_change) = 2
                  <=> RatGT(anomalies[k].baseline_avg, Float(0))

\* a returned list holding an anomaly without percent_change (zero baseline,
\* recent above the floor 5) and one with a numeric percent_change
C3_Witness ==
    /\ Called("detect_anomalies")
    /\ cfg.MIN_ABSOLUTE_INCREASE = Float(5)
    /\ \E k, m \in 1..Len(anomalies) :
          /\ anomalies[k].percent_change = None
          /\ anomalies[k].baseline_avg = Float(0)
          /\ anomalies[m].percent_change # None
          /\ RatGT(anomalies[m].baseline_avg, Float(0))

\* the strictly increasing maps from anomaly positions to row positions
Embeddings ==
    {f \in [1..Len(anomalies) -> 1..Len(rows)] :
        \A a, b \in 1..Len(anomalies) : a < b => f[a] < f[b]}

\* a list of floats is in descending order
Descending(costs) == \A i \in 1..(Len(costs) - 1) : RatGE(costs[i], costs[i + 1])

\* C10: the anomaly list is an order-preserving subsequence of the input rows,
\* at most one anomaly per row, each anomaly with the service and recent_cost
\* of its row; so anomalies of rows in descending recent cost are descending.
C10_InputOrder ==
    Called("detect_anomalies") =>
        /\ \E f \in Embeddings :
              \A k \in 1..Len(anomalies) :
                  /\ anomalies[k].service = rows[f[k]].service
                  /\ anomalies[k].recent_cost = Float(RawCost(rows[f[k]].recent_cost))
        /\ \A i \in 1..Len(rows) : Cardinality(AnomaliesOf(rows[i])) <= 1
        /\ Descending([i \in 1..Len(rows) |-> Float(RawCost(rows[i].recent_cost))])
              => Descending([k \in 1..Len(anomalies) |-> anomalies[k].recent_cost])

\* three rows of different recent cost of which the first and the last fire
C10_Witness ==
    /\ Called("detect_anomalies")
    /\ Len(rows) = 3
    /\ Len(anomalies) = 2
    /\ Yields(rows[1]) /\ ~Yields(rows[2]) /\ Yields(rows[3])
    /\ RatGT(anomalies[1].recent_cost, anomalies[2].recent_cost)

(* ============================ properties of a run ======================= *)
\* the outbound HTTP requests made so far to one destination
Requests(to) == {i \in 1..Len(http) : http[i].to = to}

\* a response with a 2xx status
Is2xx(outcome) == ~outcome.error /\ 200 <= outcome.status /\ outcome.status < 300

\* detection has returned an empty anomaly list
NoAnomalies == Called("detect_anomalies") /\ anomalies = <<>>

\* C4: when detection returns an empty list the run goes from DETECT straight
\* to END: format_message, post_to_slack and create_github_issue are never
\* invoked and no outbound HTTP request is made, whatever the configuration.
C4_NoAnomaliesShortCircuit ==
    NoAnomalies =>
        /\ pc = "END"
        /\ calls = <<"run_query", "detect_anomalies">>
        /\ http = <<>>
        /\ message = None /\ posted = None /\ created = None

\* a finished run whose query returned rows, none anomalous, with the webhook
\* and issue filing fully configured
C4_Witness ==
    /\ NoAnomalies
    /\ rows # <<>>
    /\ pc = "END"
    /\ Truthy(cfg.SLACK_WEBHOOK) /\ cfg.CREATE_ISSUE
    /\ Truthy(cfg.GITHUB_TOKEN) /\ Truthy(cfg.GITHUB_REPOSITORY)

\* the stages of main in their program order
StageOrder == <<"run_query", "detect_anomalies", "format_message",
                "post_to_slack", "create_github_issue">>

\* the moves between positions of the run (START is the module body)
StageTransitions ==
    {<<"START", "QUERY">>, <<"START", "ABORT">>,
     <<"QUERY", "DETECT">>, <<"QUERY", "ABORT">>,
     <<"DETECT", "END">>, <<"DETECT", "REPORT">>,
     <<"REPORT", "NOTIFY">>,
     <<"NOTIFY", "FILE_ISSUE">>, <<"NOTIFY", "END">>,
     <<"FILE_ISSUE", "END">>}

C5_StagesInOrder ==
    /\ Len(calls) <= Len(StageOrder)
    /\ \A i \in 1..Len(calls) : calls[i] = StageOrder[i]
    /\ pc = "END" =>
          /\ Len(calls) \in {2, 4, 5}
          /\ Len(calls) = 2 <=> anomalies = <<>>
          /\ Len(calls) = 5 <=> (anomalies # <<>> /\ cfg.CREATE_ISSUE)
    /\ Len(http) <= 2
    /\ Cardinality(Requests("slack")) <= 1
    /\ Cardinality(Requests("github")) <= 1
    /\ \A i \in Requests("github"), j \in Requests("slack") : j < i
    /\ Requests("slack") # {} => Called("post_to_slack")
    /\ Requests("github") # {} => Called("create_github_issue")

\* C5: the stages of a run occur in the order QUERY, DETECT, then END or
\* REPORT, NOTIFY, optionally FILE_ISSUE, END; each is entered at most once,
\* none is re-entered or skipped, NOTIFY precedes FILE_ISSUE, and the run makes
\* one query and at most two outbound HTTP calls (chat first, then issue).
C5_StageOrder ==
    /\ []C5_StagesInOrder
    /\ [][/\ <<pc, pc'>> \in StageTransitions
          /\ calls' = calls \/ \E f \in DOMAIN StageOrder : calls' = Append(calls, StageOrder[f])
          /\ calls' = calls <=> pc = "START"]_vars

\* a finished run that went through all five stages and made both HTTP calls
C5_Witness ==
    /\ pc = "END"
    /\ calls = StageOrder
    /\ Len(http) = 2
    /\ http[1].to = "slack" /\ http[2].to = "github"

\* an HTTP attempt that did not succeed: transport error or error status
AttemptFailed(outcome) == outcome.error \/ (400 <= outcome.status /\ outcome.status < 600)

C6_ExitStatus ==
    /\ exitCode = Some(1) => (pc = "ABORT" /\ fatal \in {"config", "query"})
    /\ pc = "ABORT" => exitCode = Some(1)
    /\ pc = "END" => (exitCode = Some(0) /\ fatal = "none")
    /\ NoAnomalies => exitCode = Some(0)
    /\ Called("post_to_slack") =>
          /\ posted # None
          /\ cfg.CREATE_ISSUE => (pc = "FILE_ISSUE" \/ Called("create_github_issue"))
          /\ pc \in {"FILE_ISSUE", "END"}

\* C6: the run exits non-zero only on a query or configuration failure and
\* exits zero when no anomalies are found or when they are found and handled,
\* whatever post_to_slack and create_github_issue return; a failed or skipped
\* NOTIFY never prevents FILE_ISSUE when issue filing is enabled, and the run
\* always reaches END after them (from REPORT on a step is always possible,
\* and every step moves on towards END).
C6_ExitAndCompletion ==
    /\ []C6_ExitStatus
    /\ [](pc \in {"REPORT", "NOTIFY", "FILE_ISSUE"} => ENABLED Next)
    /\ [][/\ pc = "REPORT" => pc' = "NOTIFY"
          /\ pc = "NOTIFY" => pc' = (IF cfg.CREATE_ISSUE THEN "FILE_ISSUE" ELSE "END")
          /\ pc = "FILE_ISSUE" => pc' = "END"
          /\ pc' = "END" => exitCode' = Some(0)]_vars

\* a run that ended with status 0 although the chat delivery and the issue
\* filing were both attempted and both failed
C6_Witness ==
    /\ pc = "END" /\ exitCode = Some(0)
    /\ posted = Some(FALSE) /\ created = Some(FALSE)
    /\ \E i \in Requests("slack") : AttemptFailed(http[i].outcome)
    /\ \E i \in Requests("github") : AttemptFailed(http[i].outcome)

\* C7: with BILLING_TABLE absent the run aborts before any query is issued;
\* when the query fails the error leaves main, so DETECT, REPORT, NOTIFY and
\* FILE_ISSUE never happen, no result is used, nothing is sent or filed.
C7_FatalErrorsStop ==
    /\ ~Truthy(env["BILLING_TABLE"]) =>
          /\ pc \in {"START", "ABORT"}
          /\ calls = <<>> /\ http = <<>>
          /\ pc = "ABORT" => (fatal = "config" /\ exitCode = Some(1))
    /\ fatal = "query" =>
          /\ pc = "ABORT" /\ exitCode = Some(1)
          /\ calls = <<"run_query">>
          /\ rows = <<>> /\ anomalies = <<>> /\ message = None
          /\ posted = None /\ created = None /\ http = <<>>
    /\ pc = "ABORT" => ~Called("detect_anomalies")

\* a run aborted by a failing query, with chat and issue filing configured
C7_Witness ==
    /\ fatal = "query" /\ pc = "ABORT"
    /\ Truthy(cfg.SLACK_WEBHOOK) /\ cfg.CREATE_ISSUE
    /\ calls = <<"run_query">>

\* C8 as stated: post_to_slack never raises; without a webhook it makes no
\* request and returns False; with one it makes exactly one attempt and
\* returns True only on a 2xx response, False on a non-2xx response or a
\* transport error.
C8_AsStated ==
    /\ fatal # "notify"
    /\ Called("post_to_slack") =>
          /\ posted # None
          /\ ~Truthy(cfg.SLACK_WEBHOOK) =>
                (Requests("slack") = {} /\ posted = Some(FALSE))
          /\ Truthy(cfg.SLACK_WEBHOOK) =>
                /\ Cardinality(Requests("slack")) = 1
                /\ \A i \in Requests("slack") :
                      posted = Some(TRUE) <=> Is2xx(http[i].outcome)

====
